---- MODULE Spec2Model ----
(***************************************************************************)
(* Model of put's file-listing and selection core and of its interface:    *)
(*   FileMetadata, sizeof_fmt and FileManager of                           *)
(*   src/put/fm/file_manager.py, FileFunctions of                          *)
(*   src/put/ui/file_functions.py.                                         *)
(* A directory is a function from entry names to entries; an entry name is *)
(* a sequence of code points, so that sorted() and len() are computed as   *)
(* Python computes them.  The directory can lose entries to another        *)
(* process at any time, also in the middle of a refresh.                   *)
(* Spec drives the FileManager by direct calls, SpecUI by key events;      *)
(* SpecMeta builds FileMetadata and SpecFmt calls sizeof_fmt on their own. *)
(***************************************************************************)
EXTENDS Integers, Sequences, FiniteSets, TLC

VARIABLES
    fs,                \* the file system: directory path -> name -> entry
    wd,                \* FileManager.wd
    files,             \* FileManager.files (a Python list, 0-based in the code)
    selected_files,    \* FileManager.selected_files (a Python set)
    total, used, free, \* FileManager.total / used / free
    max_filename_len,  \* FileManager.max_filename_len
    total_size,        \* FileManager.total_size
    selected_size,     \* FileManager.selected_size
    last,              \* the latest call on the FileManager and how it ended
    prev,              \* the call before it
    steps,             \* the number of calls and removals so far
    cwd,               \* the current directory of the process, os.getcwd()
    meta,              \* the latest FileMetadata built on its own, and its row
    fmt_num,           \* the argument of a call of sizeof_fmt on its own
    fmt_text,          \* what it returned, "" before the call
    listwalker,        \* FileFunctions.listwalker: the rows on the screen
    focus,             \* the position listwalker.get_focus() returns
    statbox,           \* the figures update_statbox wrote last
    loop,              \* the urwid main loop: "running", "exited", "crashed"
    key                \* the latest key handed to unhandled_input

fmvars == <<wd, files, selected_files, total, used, free,
            max_filename_len, total_size, selected_size>>
vars == <<fs, wd, files, selected_files, total, used, free,
          max_filename_len, total_size, selected_size, last, prev, steps,
          cwd, meta, fmt_num, fmt_text, listwalker, focus, statbox, loop, key>>
\* the fields of the FileFunctions widget and its main loop
uivars == <<listwalker, focus, statbox, loop, key>>
\* what a key event leaves alone, and what a direct call on the FileManager
\* leaves alone
probes == <<cwd, meta, fmt_num, fmt_text>>
others == <<probes, uivars>>

(***************************************************************************)
(* Bounds of the model.                                                    *)
(***************************************************************************)
\* a run is at most MaxSteps calls and removals long
MaxSteps == 3
\* index arguments: every position of the listing, one before the first
\* (Python's "last element") and one past the last
Indices == (0 - 1) .. Len(files)

(***************************************************************************)
(* The file system.                                                        *)
(***************************************************************************)
NameA  == <<97>>          \* "a"
NameAB == <<97, 98>>      \* "ab"
NameB  == <<98>>          \* "b"
Names  == {NameA, NameAB, NameB}

Dirs  == {"/d1", "/d2"}
\* arguments of change_dir: the directories, a path that is a regular file
\* while /d1 holds "a", and a path that never exists
Paths == Dirs \cup {"/d1/a", "/missing"}

\* an entry: its kind, the size stat reports for it, and for a symbolic link
\* the target it stores, <<directory, name>>, with "" as the directory of a
\* relative target
NoEntry      == [kind |-> "none", size |-> 0, target |-> <<>>]
File(s)      == [kind |-> "file", size |-> s, target |-> <<>>]
Directory(s) == [kind |-> "dir", size |-> s, target |-> <<>>]
Link(d, n)   == [kind |-> "link", size |-> 0, target |-> <<d, n>>]
\* a symbolic link to an absolute path that names nothing
BrokenLink   == Link("/missing", NameA)

InitialFs ==
    [d \in Dirs |->
        IF d = "/d1"
        THEN [n \in Names |->
                 CASE n = NameA  -> File(1)
                   [] n = NameAB -> Directory(4)
                   [] n = NameB  -> File(2)]
        ELSE [n \in Names |->
                 CASE n = NameA  -> File(3)
                   [] n = NameAB -> NoEntry
                   [] n = NameB  -> BrokenLink]]

\* what the path names: a directory, a regular file, or nothing
PathKind(f, p) ==
    CASE p \in Dirs    -> "dir"
      [] p = "/d1/a"   -> IF f["/d1"][NameA].kind = "file" THEN "file" ELSE "missing"
      [] OTHER         -> "missing"

\* the directory whose volume holds the path
VolumeOf(p) == IF p = "/d2" THEN "/d2" ELSE "/d1"

RECURSIVE SumOver(_, _)
SumOver(f, S) ==
    IF S = {} THEN 0
    ELSE LET n == CHOOSE x \in S : TRUE
         IN  f[n].size + SumOver(f, S \ {n})

\* os.listdir(p) of a directory, as a set: the order it returns is arbitrary
ListDir(f, p) == {n \in Names : f[p][n].kind # "none"}

\* shutil.disk_usage(p): the figures of the volume that holds p
DiskUsage(f, p) ==
    LET v == VolumeOf(p)
        t == IF v = "/d1" THEN 16 ELSE 32
        u == SumOver(f[v], Names)
    IN  [total |-> t, used |-> u, free |-> t - u]

(***************************************************************************)
(* Python values: str comparison, sorted(), list indexing.                 *)
(***************************************************************************)
\* a < b for two str values: code point order, a proper prefix is smaller
RECURSIVE LexLess(_, _)
LexLess(a, b) ==
    IF b = <<>> THEN FALSE
    ELSE IF a = <<>> THEN TRUE
    ELSE IF Head(a) # Head(b) THEN Head(a) < Head(b)
    ELSE LexLess(Tail(a), Tail(b))

\* sorted(..., reverse=True): the listing in descending order
RECURSIVE SortedDescending(_)
SortedDescending(S) ==
    IF S = {} THEN <<>>
    ELSE LET m == CHOOSE x \in S : \A y \in S \ {x} : LexLess(y, x)
         IN  <<m>> \o SortedDescending(S \ {m})

\* sorted(S) of a collection of distinct str values
RECURSIVE Sorted(_)
Sorted(S) ==
    IF S = {} THEN <<>>
    ELSE LET m == CHOOSE x \in S : \A y \in S \ {x} : LexLess(x, y)
         IN  <<m>> \o Sorted(S \ {m})

\* lst[i] is defined for -len(lst) <= i < len(lst); anything else is IndexError
PyInRange(lst, i) == (0 - Len(lst)) <= i /\ i < Len(lst)
PyIndex(lst, i) == IF i >= 0 THEN lst[i + 1] ELSE lst[Len(lst) + i + 1]

\* the value None, which is no integer: a set holds it like any other value,
\* and a list indexed by it raises TypeError.  It is written as a number that
\* is no position of any list, and every operator that indexes tests for it
\* before it tests the range.
None == 0 - 1000

\* the length of the shortest name
RECURSIVE MinLen(_)
MinLen(S) ==
    IF S = {} THEN 0
    ELSE LET n == CHOOSE x \in S : TRUE
             r == MinLen(S \ {n})
         IN  IF S = {n} \/ Len(n) < r THEN Len(n) ELSE r

\* max(len(x) for x in S)
RECURSIVE MaxLen(_)
MaxLen(S) ==
    IF S = {} THEN 0
    ELSE LET n == CHOOSE x \in S : TRUE
             r == MaxLen(S \ {n})
         IN  IF Len(n) > r THEN Len(n) ELSE r

(***************************************************************************)
(* FileMetadata.                                                           *)
(***************************************************************************)
\* the entry os.path.join(w, n) names, NoEntry when there is none
EntryAt(f, w, n) == IF w \in Dirs THEN f[w][n] ELSE NoEntry

\* the directory a stored target t is looked up in, `from` for a relative one
TargetDir(t, from) == IF t[1] = "" THEN from ELSE t[1]

\* the entry a path names once symbolic links are followed, as stat does: a
\* relative target is looked up in the directory `from`; a chain longer than
\* `hops` links names nothing
RECURSIVE Follow(_, _, _, _)
Follow(f, from, n, hops) ==
    IF EntryAt(f, from, n).kind # "link" THEN EntryAt(f, from, n)
    ELSE IF hops = 0 THEN NoEntry
    ELSE Follow(f, TargetDir(EntryAt(f, from, n).target, from),
                EntryAt(f, from, n).target[2], hops - 1)

\* os.path.exists(os.readlink(os.path.join(w, n))) for a link: the stored
\* target is handed to exists() as it is, so a relative one is looked up in
\* the current directory of the process
TargetExists(f, w, n) ==
    /\ EntryAt(f, w, n).kind = "link"
    /\ Follow(f, TargetDir(EntryAt(f, w, n).target, cwd),
              EntryAt(f, w, n).target[2], 1).kind # "none"

\* fields that ask os.path.isdir and os.path.getsize also for a broken link
Fields_unguarded(n, islink, exists, s, wkind) ==
    [basename     |-> n,
     islink       |-> islink,
     isbrokenlink |-> islink /\ ~exists,
     isdir        |-> s.kind = "dir",
     size         |-> s.size,
     err          |-> IF s.kind # "none" THEN "none" ELSE "FileNotFoundError"]

\* the fields __init__ sets from what the os calls answer: islink, whether
\* the stored target exists, the entry stat finds (s), and what the working
\* directory is (wkind)
Fields(n, islink, exists, s, wkind) ==
    [basename     |-> n,
     islink       |-> islink,
     isbrokenlink |-> islink /\ ~exists,
     isdir        |-> IF islink /\ ~exists THEN FALSE ELSE s.kind = "dir",
     size         |-> IF islink /\ ~exists THEN 0 ELSE s.size,
     err          |-> IF (islink /\ ~exists) \/ s.kind # "none" THEN "none"
                      ELSE IF wkind = "file" THEN "NotADirectoryError"
                      ELSE "FileNotFoundError"]

\* FileMetadata(w, n): the fields __init__ sets, and the exception it raises
FileMetadata(f, w, n) ==
    Fields(n, EntryAt(f, w, n).kind = "link", TargetExists(f, w, n),
           Follow(f, w, n, 2), PathKind(f, w))

\* '{:>10}'.format(x): the text right-justified in a field of `width`
RECURSIVE RJust(_, _)
RJust(text, width) ==
    IF Len(text) >= width THEN text ELSE RJust(" " \o text, width)

\* f"{name}\t".expandtabs(tabsize): spaces up to the next tab stop
ExpandTab(name, tabsize) ==
    name \o [k \in 1..(tabsize - (Len(name) % tabsize)) |-> 32]

\* FileMetadata.render(maxnamelen): the three parts of the row, which is
\* name + size + "  " + mtime; the time of an entry is the 16 characters
\* strftime writes for the format
render(m, maxnamelen) ==
    [name  |-> ExpandTab(IF m.isdir THEN Append(m.basename, 47) ELSE m.basename,
                         maxnamelen + 2),
     size  |-> RJust(IF m.isbrokenlink THEN "N/A" ELSE ToString(m.size), 10),
     mtime |-> IF m.isbrokenlink THEN "N/A" ELSE "%Y-%m-%d %H:%M"]

\* no FileMetadata built yet
NoMeta ==
    [built |-> FALSE, wd |-> "",
     m |-> [basename |-> <<>>, islink |-> FALSE, isbrokenlink |-> FALSE,
            isdir |-> FALSE, size |-> 0, err |-> "none"],
     row |-> [name |-> <<>>, size |-> "", mtime |-> ""]]

(***************************************************************************)
(* sizeof_fmt.  A size is a sequence of base-1024 digits, lowest first     *)
(* (<<512, 1>> is 1536), so that sizes up to and beyond 1024^6 are         *)
(* computed exactly; the highest digit of a size of two or more digits is  *)
(* not 0.                                                                  *)
(***************************************************************************)
\* a size has at most MaxDigits base-1024 digits
MaxDigits == 7

unit_list ==
    << [unit |-> "bytes", num_decimals |-> 0], [unit |-> "kB", num_decimals |-> 0],
       [unit |-> "MB", num_decimals |-> 1],    [unit |-> "GB", num_decimals |-> 1],
       [unit |-> "TB", num_decimals |-> 1],    [unit |-> "PB", num_decimals |-> 1] >>

\* the size n as base-1024 digits, and the value of the digits i..j of d
RECURSIVE Digits1024(_)
Digits1024(n) == IF n < 1024 THEN <<n>> ELSE <<n % 1024>> \o Digits1024(n \div 1024)

RECURSIVE ValueOf(_, _, _)
ValueOf(d, i, j) == IF i > j THEN 0 ELSE d[i] + 1024 * ValueOf(d, i + 1, j)

RECURSIVE Pow2(_)
Pow2(b) == IF b = 0 THEN 1 ELSE 2 * Pow2(b - 1)

\* the number of bits of a digit
RECURSIVE BitLen(_)
BitLen(x) == IF x = 0 THEN 0 ELSE 1 + BitLen(x \div 2)

\* d + v * 1024^(i-1), for v <= 1024
RECURSIVE AddAt(_, _, _)
AddAt(d, i, v) ==
    IF v = 0 THEN d
    ELSE IF i > Len(d) THEN Append(d, v)
    ELSE LET t == d[i] + v
         IN  AddAt([d EXCEPT ![i] = t % 1024], i + 1, t \div 1024)

\* float(num): the nearest number with 53 significant bits, ties to even
float(d) ==
    LET bits == 10 * (Len(d) - 1) + BitLen(d[Len(d)])
        k    == bits - 53                 \* the low bits that are dropped
        a    == k \div 10                 \* whole digits among them
        b    == k % 10                    \* bits of digit a + 1 among them
    IN  IF k <= 0 THEN d
        ELSE LET unit    == Pow2(b)       \* weight of the lowest kept bit in digit a + 1
                 lowpart == d[a + 1] % unit
                 kept    == [i \in 1..Len(d) |->
                                IF i <= a THEN 0
                                ELSE IF i = a + 1 THEN d[i] - lowpart ELSE d[i]]
                 guard   == IF b > 0 THEN lowpart >= unit \div 2 ELSE d[a] >= 512
                 sticky  == IF b > 0
                            THEN \/ lowpart % (unit \div 2) # 0
                                 \/ \E i \in 1..a : d[i] # 0
                            ELSE \/ d[a] % 512 # 0
                                 \/ \E i \in 1..(a - 1) : d[i] # 0
                 odd     == (d[a + 1] \div unit) % 2 = 1
             IN  IF guard /\ (sticky \/ odd) THEN AddAt(kept, a + 1, unit) ELSE kept

\* 10 * d for the digits d, as digits of the same length and a carry
RECURSIVE TimesTen(_, _)
TimesTen(d, carry) ==
    IF d = <<>> THEN [digits |-> <<>>, carry |-> carry]
    ELSE LET t == 10 * Head(d) + carry
             r == TimesTen(Tail(d), t \div 1024)
         IN  [digits |-> <<t % 1024>> \o r.digits, carry |-> r.carry]

\* the fraction r / 1024^Len(r) against one half: "lt", "eq" or "gt"
HalfOf(r) ==
    IF r = <<>> THEN "lt"
    ELSE IF r[Len(r)] > 512 THEN "gt"
    ELSE IF r[Len(r)] < 512 THEN "lt"
    ELSE IF \E i \in 1..(Len(r) - 1) : r[i] # 0 THEN "gt" ELSE "eq"

\* '{:.0f}' and '{:.1f}' of whole + frac / 1024^Len(frac): the decimal
\* nearest to the value, ties to the even last digit
FormatFixed(whole, frac, num_decimals) ==
    IF num_decimals = 0
    THEN LET up == HalfOf(frac) = "gt" \/ (HalfOf(frac) = "eq" /\ whole % 2 = 1)
         IN  ToString(IF up THEN whole + 1 ELSE whole)
    ELSE LET t     == TimesTen(frac, 0)
             up    == \/ HalfOf(t.digits) = "gt"
                      \/ (HalfOf(t.digits) = "eq" /\ t.carry % 2 = 1)
             tenth == IF up THEN t.carry + 1 ELSE t.carry
         IN  IF tenth = 10 THEN ToString(whole + 1) \o ".0"
             ELSE ToString(whole) \o "." \o ToString(tenth)

\* int(math.log(num, 1024)) for num > 1: the quotient of the two double
\* logarithms is the whole number 5 for the three sizes below 1024^5, and
\* one less than the number of digits otherwise (sizes of six digits and
\* more that round the same way end in the same min(..., 5))
LogRoundsUp(d) ==
    /\ Len(d) = 5
    /\ \A i \in 2..5 : d[i] = 1023
    /\ d[1] >= 1021

\* an int(math.log(num, 1024)) that truncates to one less at the powers
IntLog1024_short(d) ==
    IF Len(d) > 1 /\ d[Len(d)] = 1 /\ \A i \in 1..(Len(d) - 1) : d[i] = 0
    THEN Len(d) - 2 ELSE Len(d) - 1

IntLog1024(d) == IF LogRoundsUp(d) THEN Len(d) ELSE Len(d) - 1

Min(a, b) == IF a < b THEN a ELSE b

\* format_string.format(float(num) / 1024 ** exponent, unit)
Formatted(num, exponent) ==
    LET quotient == float(num)
        u        == unit_list[exponent + 1]
    IN  FormatFixed(ValueOf(quotient, exponent + 1, Len(quotient)),
                    SubSeq(quotient, 1, exponent), u.num_decimals) \o " " \o u.unit

\* sizeof_fmt(num): the text, "None" standing for no return value
sizeof_fmt(num) ==
    IF Len(num) > 1 \/ num[1] > 1
    THEN Formatted(num, Min(IntLog1024(num), Len(unit_list) - 1))
    ELSE IF num = <<0>> THEN "0 bytes"
    ELSE IF num = <<1>> THEN "1 byte"
    ELSE "None"

(***************************************************************************)
(* FileManager.                                                            *)
(***************************************************************************)
\* recalculate_files_size(names): the sum of the sizes, or the first exception
RECURSIVE SumSizes(_, _, _)
SumSizes(f, w, names) ==
    IF names = <<>> THEN 0
    ELSE FileMetadata(f, w, Head(names)).size + SumSizes(f, w, Tail(names))

SizeErr(f, w, names) ==
    IF \A k \in 1..Len(names) : FileMetadata(f, w, names[k]).err = "none"
    THEN "none"
    ELSE LET k == CHOOSE j \in 1..Len(names) :
                      /\ FileMetadata(f, w, names[j]).err # "none"
                      /\ \A h \in 1..(j - 1) : FileMetadata(f, w, names[h]).err = "none"
         IN  FileMetadata(f, w, names[k]).err

recalculate_files_size(f, w, names) ==
    [err |-> SizeErr(f, w, names),
     size |-> IF SizeErr(f, w, names) = "none" THEN SumSizes(f, w, names) ELSE 0]

\* the fields of a FileManager, as one value
State == [wd |-> wd, files |-> files, selected_files |-> selected_files,
          total |-> total, used |-> used, free |-> free,
          max_filename_len |-> max_filename_len, total_size |-> total_size,
          selected_size |-> selected_size]

\* the directory after another process removed the entries `gone` of w
Without(f, w, gone) ==
    IF w \in Dirs
    THEN [f EXCEPT ![w] = [n \in Names |-> IF n \in gone THEN NoEntry ELSE f[w][n]]]
    ELSE f

\* a refresh() that re-lists and re-sizes but leaves the selection as it was
refresh_keeps_selection(f, st, gone) ==
    IF PathKind(f, st.wd) # "dir"
    THEN [st |-> st, err |-> "FileNotFoundError", fs |-> f]
    ELSE LET du    == DiskUsage(f, st.wd)
             names == Sorted(ListDir(f, st.wd))
             f2    == Without(f, st.wd, gone)
             r     == recalculate_files_size(f2, st.wd, names)
         IN  [st |-> [st EXCEPT !.total = du.total, !.used = du.used, !.free = du.free,
                                !.files = names,
                                !.max_filename_len =
                                    IF names # <<>> THEN MaxLen(ListDir(f, st.wd)) ELSE 12,
                                !.total_size = r.size],
              err |-> r.err, fs |-> f2]

\* refresh(), with the entries `gone` vanishing after the listing is read and
\* before the sizes are: the fields it leaves, the exception it raises
refresh(f, st, gone) ==
    IF PathKind(f, st.wd) = "missing"
    THEN [st |-> st, err |-> "FileNotFoundError", fs |-> f]
    ELSE
    LET du  == DiskUsage(f, st.wd)
        st1 == [st EXCEPT !.total = du.total, !.used = du.used, !.free = du.free]
    IN  IF PathKind(f, st.wd) = "file"
        THEN [st |-> st1, err |-> "NotADirectoryError", fs |-> f]
        ELSE
        LET names == Sorted(ListDir(f, st.wd))
            st2   == [st1 EXCEPT !.files = names,
                                 !.max_filename_len =
                                     IF names # <<>> THEN MaxLen(ListDir(f, st.wd)) ELSE 12,
                                 !.total_size = 0]
            f2    == Without(f, st.wd, gone)
            r     == recalculate_files_size(f2, st.wd, names)
        IN  IF r.err # "none"
            THEN [st |-> st2, err |-> r.err, fs |-> f2]
            ELSE [st |-> [st2 EXCEPT !.total_size = r.size,
                                     !.selected_files = {},
                                     !.selected_size = 0],
                  err |-> "none", fs |-> f2]

\* change_dir(workdir)
change_dir(f, st, workdir, gone) == refresh(f, [st EXCEPT !.wd = workdir], gone)

\* selected_file_paths(): files[i] for the i of a set, in some order
RECURSIVE selected_file_paths(_, _)
selected_file_paths(lst, S) ==
    IF S = {} THEN <<>>
    ELSE LET i == CHOOSE x \in S : TRUE
         IN  <<PyIndex(lst, i)>> \o selected_file_paths(lst, S \ {i})

\* recalculate_selected_files_size() with the selection sel
recalculate_selected_files_size(f, st, sel) ==
    IF None \in sel
    THEN [st |-> [st EXCEPT !.selected_files = sel], err |-> "TypeError"]
    ELSE
    IF \E i \in sel : ~PyInRange(st.files, i)
    THEN [st |-> [st EXCEPT !.selected_files = sel], err |-> "IndexError"]
    ELSE LET r == recalculate_files_size(f, st.wd, selected_file_paths(st.files, sel))
         IN  IF r.err # "none"
             THEN [st |-> [st EXCEPT !.selected_files = sel], err |-> r.err]
             ELSE [st |-> [st EXCEPT !.selected_files = sel, !.selected_size = r.size],
                   err |-> "none"]

\* a select_file(idx) that adds the entry's size to the running total instead
\* of recomputing it over the set
select_file_accumulates(f, st, idx) ==
    IF ~PyInRange(st.files, idx)
    THEN [st |-> [st EXCEPT !.selected_files = @ \cup {idx}], err |-> "IndexError"]
    ELSE LET m == FileMetadata(f, st.wd, PyIndex(st.files, idx))
         IN  IF m.err # "none"
             THEN [st |-> [st EXCEPT !.selected_files = @ \cup {idx}], err |-> m.err]
             ELSE [st |-> [st EXCEPT !.selected_files = @ \cup {idx},
                                     !.selected_size = @ + m.size],
                   err |-> "none"]

\* a select_file(idx) that stores the recomputed size in total_size as well
select_file_writes_total(f, st, idx) ==
    LET r == recalculate_selected_files_size(f, st, st.selected_files \cup {idx})
    IN  [r EXCEPT !.st.total_size = r.st.selected_size]

\* select_file(idx)
select_file(f, st, idx) ==
    recalculate_selected_files_size(f, st, st.selected_files \cup {idx})

\* an unselect_file(idx) that removes the index and does not recompute the size
unselect_file_stale(f, st, idx) ==
    IF idx \notin st.selected_files
    THEN [st |-> st, err |-> "KeyError"]
    ELSE [st |-> [st EXCEPT !.selected_files = @ \ {idx}], err |-> "none"]

\* unselect_file(idx): set.remove raises KeyError for an absent element
unselect_file(f, st, idx) ==
    IF idx \notin st.selected_files
    THEN [st |-> st, err |-> "KeyError"]
    ELSE recalculate_selected_files_size(f, st, st.selected_files \ {idx})

\* get_path(idx): the joined path, or the exception
get_path(st, idx) ==
    IF idx = None
    THEN [path |-> <<>>, err |-> "TypeError"]
    ELSE
    IF PyInRange(st.files, idx)
    THEN [path |-> <<st.wd, PyIndex(st.files, idx)>>, err |-> "none"]
    ELSE [path |-> <<>>, err |-> "IndexError"]

\* os.unlink(os.path.join(w, n))
unlink(f, w, n) ==
    LET e == EntryAt(f, w, n)
    IN  CASE e.kind = "none" -> [fs |-> f, err |-> IF PathKind(f, w) = "file"
                                                   THEN "NotADirectoryError"
                                                   ELSE "FileNotFoundError"]
          [] e.kind = "dir"  -> [fs |-> f, err |-> "IsADirectoryError"]
          [] OTHER           -> [fs |-> Without(f, w, {n}), err |-> "none"]

\* a loop that returns after its first deletion
unlink_loop_first_only(f, st, order, tried) ==
    IF order = <<>> THEN [fs |-> f, err |-> "none", tried |-> tried, failed |-> {}]
    ELSE LET p == get_path(st, Head(order))
         IN  IF p.err # "none"
             THEN [fs |-> f, err |-> p.err, tried |-> tried, failed |-> {}]
             ELSE LET u == unlink(f, p.path[1], p.path[2])
                  IN  [fs |-> u.fs, err |-> u.err, tried |-> tried \cup {Head(order)},
                       failed |-> IF u.err # "none" THEN {Head(order)} ELSE {}]

\* the loop of delete_selected_files over the indices in the order `order`:
\* the file system it leaves, the indices it called unlink for, the index
\* whose unlink raised, the exception
RECURSIVE unlink_loop(_, _, _, _)
unlink_loop(f, st, order, tried) ==
    IF order = <<>> THEN [fs |-> f, err |-> "none", tried |-> tried, failed |-> {}]
    ELSE LET p == get_path(st, Head(order))
         IN  IF p.err # "none"
             THEN [fs |-> f, err |-> p.err, tried |-> tried, failed |-> {}]
             ELSE LET u == unlink(f, p.path[1], p.path[2])
                  IN  IF u.err # "none"
                      THEN [fs |-> f, err |-> u.err, tried |-> tried \cup {Head(order)},
                            failed |-> {Head(order)}]
                      ELSE unlink_loop(u.fs, st, Tail(order), tried \cup {Head(order)})

\* delete_selected_files(), iterating the set in the order `order`
delete_selected_files(f, st, order, gone) ==
    LET d == unlink_loop(f, st, order, {})
    IN  IF d.err # "none"
        THEN [st |-> st, err |-> d.err, fs |-> d.fs, tried |-> d.tried, failed |-> d.failed]
        ELSE LET r == refresh(d.fs, st, gone)
             IN  [st |-> r.st, err |-> r.err, fs |-> r.fs, tried |-> d.tried,
                  failed |-> d.failed]

(***************************************************************************)
(* The state machine: one action per call on the FileManager, and one for  *)
(* another process removing an entry.                                      *)
(***************************************************************************)
\* the record of a call: its name, arguments and exception ("none" when it
\* returned), the selection before it, the indices it called unlink for and
\* those whose unlink raised
CallRecord(op, idx, path, err, tried, failed) ==
    [op |-> op, idx |-> idx, path |-> path, err |-> err,
     pre_sel |-> selected_files, pre_size |-> selected_size,
     tried |-> tried, failed |-> failed]

NoCall == [op |-> "none", idx |-> 0, path |-> "", err |-> "none",
           pre_sel |-> {}, pre_size |-> 0, tried |-> {}, failed |-> {}]

\* the entries of w that can vanish during a refresh: none, or one
Races(f, w) == {{}} \cup {{n} : n \in IF w \in Dirs THEN ListDir(f, w) ELSE {}}

\* every step records the call and counts it
Tick(rec) ==
    /\ steps < MaxSteps
    /\ steps' = steps + 1
    /\ last' = rec
    /\ prev' = last

Step(rec) == Tick(rec) /\ UNCHANGED others

\* no FileFunctions widget
NoUI ==
    /\ listwalker = <<>>
    /\ focus = 0
    /\ statbox = <<>>
    /\ loop = "none"
    /\ key = ""

\* the orders a for loop can iterate the set S in
Orders(S) ==
    {o \in [1..Cardinality(S) -> S] : \A j, k \in 1..Cardinality(S) : o[j] = o[k] => j = k}

Assign(st) ==
    /\ wd' = st.wd
    /\ files' = st.files
    /\ selected_files' = st.selected_files
    /\ total' = st.total
    /\ used' = st.used
    /\ free' = st.free
    /\ max_filename_len' = st.max_filename_len
    /\ total_size' = st.total_size
    /\ selected_size' = st.selected_size

\* FileManager(workdir): __init__ sets the fields and calls change_dir
ConstructedOn(f, workdir) ==
    change_dir(f,
               [wd |-> workdir, files |-> <<>>, selected_files |-> {},
                total |-> 0, used |-> 0, free |-> 0, max_filename_len |-> 0,
                total_size |-> 0, selected_size |-> 0],
               workdir, {})

Constructed(workdir) == ConstructedOn(InitialFs, workdir)

Init ==
    \E workdir \in Dirs :
        LET r == Constructed(workdir)
        IN  /\ r.err = "none"
            /\ fs = r.fs
            /\ wd = r.st.wd
            /\ files = r.st.files
            /\ selected_files = r.st.selected_files
            /\ total = r.st.total
            /\ used = r.st.used
            /\ free = r.st.free
            /\ max_filename_len = r.st.max_filename_len
            /\ total_size = r.st.total_size
            /\ selected_size = r.st.selected_size
            /\ last = [NoCall EXCEPT !.op = "__init__", !.path = workdir]
            /\ prev = NoCall
            /\ steps = 0
            /\ cwd = "/d1"
            /\ meta = NoMeta
            /\ fmt_num = <<0>>
            /\ fmt_text = ""
            /\ NoUI

ChangeDir ==
    \E workdir \in Paths : \E gone \in Races(fs, workdir) :
        LET r == change_dir(fs, State, workdir, gone)
        IN  /\ Assign(r.st)
            /\ fs' = r.fs
            /\ Step(CallRecord("change_dir", 0, workdir, r.err, {}, {}))

Refresh ==
    \E gone \in Races(fs, wd) :
        LET r == refresh(fs, State, gone)
        IN  /\ Assign(r.st)
            /\ fs' = r.fs
            /\ Step(CallRecord("refresh", 0, "", r.err, {}, {}))

SelectFile ==
    \E idx \in Indices :
        LET r == select_file(fs, State, idx)
        IN  /\ Assign(r.st)
            /\ fs' = fs
            /\ Step(CallRecord("select_file", idx, "", r.err, {}, {}))

UnselectFile ==
    \E idx \in Indices :
        LET r == unselect_file(fs, State, idx)
        IN  /\ Assign(r.st)
            /\ fs' = fs
            /\ Step(CallRecord("unselect_file", idx, "", r.err, {}, {}))

GetPath ==
    \E idx \in Indices :
        LET r == get_path(State, idx)
        IN  /\ UNCHANGED <<fs, fmvars>>
            /\ Step(CallRecord("get_path", idx, "", r.err, {}, {}))

DeleteSelectedFiles ==
    \E order \in Orders(selected_files), gone \in Races(fs, wd) :
        LET r == delete_selected_files(fs, State, order, gone)
        IN  /\ Assign(r.st)
            /\ fs' = r.fs
            /\ Step(CallRecord("delete_selected_files", 0, "", r.err, r.tried, r.failed))

\* another process removes an entry of a directory
ExternalRemove ==
    \E d \in Dirs, n \in Names :
        /\ fs[d][n].kind # "none"
        /\ fs' = Without(fs, d, {n})
        /\ UNCHANGED fmvars
        /\ Step(CallRecord("external", 0, d, "none", {}, {}))

Next ==
    \/ ChangeDir
    \/ Refresh
    \/ SelectFile
    \/ UnselectFile
    \/ GetPath
    \/ DeleteSelectedFiles
    \/ ExternalRemove

Spec == Init /\ [][Next]_vars

(***************************************************************************)
(* FileMetadata on its own: one entry of a directory is any of the entries *)
(* of MetaEntries, the process runs in either directory, and FileMetadata  *)
(* is built and rendered for any entry.                                    *)
(***************************************************************************)
MetaEntries ==
    {NoEntry, File(0), File(5), Directory(4)}
    \cup {Link(d, n) : d \in {"", "/d1", "/d2", "/missing"}, n \in {NameA, NameB}}

InitMeta ==
    \E d \in Dirs, e \in MetaEntries, c \in Dirs :
        /\ fs = [InitialFs EXCEPT ![d][NameAB] = e]
        /\ cwd = c
        /\ meta = NoMeta
        /\ fmt_num = <<0>>
        /\ fmt_text = ""
        /\ NoUI
        /\ wd = ""
        /\ files = <<>>
        /\ selected_files = {}
        /\ total = 0
        /\ used = 0
        /\ free = 0
        /\ max_filename_len = 0
        /\ total_size = 0
        /\ selected_size = 0
        /\ last = NoCall
        /\ prev = NoCall
        /\ steps = 0

\* metadata = FileMetadata(w, n); metadata.render(maxnamelen)
BuildMetadata ==
    \E w \in Dirs, n \in Names : \E maxnamelen \in {MaxLen(ListDir(fs, w)), 12} :
        LET m == FileMetadata(fs, w, n)
        IN  /\ meta' = [built |-> TRUE, wd |-> w, m |-> m,
                        row |-> IF m.err = "none" THEN render(m, maxnamelen)
                                ELSE NoMeta.row]
            /\ UNCHANGED <<fs, fmvars, last, prev, steps, cwd, fmt_num, fmt_text, uivars>>

NextMeta == BuildMetadata

SpecMeta == InitMeta /\ [][NextMeta]_vars

(***************************************************************************)
(* sizeof_fmt on its own: the argument is any size of Sizes.               *)
(***************************************************************************)
\* sizes of one digit, and sizes of 2..MaxDigits digits whose highest digit,
\* second highest digit, lowest digit and digits in between are chosen
\* around the powers of 1024, the halves and the quarters
Sizes ==
    {<<v>> : v \in {0, 1, 2, 3, 512, 1023}}
    \cup {[i \in 1..k |-> IF i = k THEN top
                          ELSE IF i = 1 THEN low
                          ELSE IF i = k - 1 THEN second ELSE mid] :
             k \in 2..MaxDigits, top \in {1, 2, 1023},
             second \in {0, 1, 256, 512, 768, 1023}, mid \in {0, 1023},
             low \in {0, 1, 512, 1021, 1023}}

InitFmt ==
    /\ fmt_num \in Sizes
    /\ fmt_text = ""
    /\ NoUI
    /\ fs = InitialFs
    /\ cwd = "/d1"
    /\ meta = NoMeta
    /\ wd = ""
    /\ files = <<>>
    /\ selected_files = {}
    /\ total = 0
    /\ used = 0
    /\ free = 0
    /\ max_filename_len = 0
    /\ total_size = 0
    /\ selected_size = 0
    /\ last = NoCall
    /\ prev = NoCall
    /\ steps = 0

\* sizeof_fmt(num)
SizeofFmt ==
    /\ fmt_text = ""
    /\ fmt_text' = sizeof_fmt(fmt_num)
    /\ UNCHANGED <<fs, fmvars, last, prev, steps, cwd, meta, fmt_num, uivars>>

NextFmt == SizeofFmt

SpecFmt == InitFmt /\ [][NextFmt]_vars

(***************************************************************************)
(* The interface, FileFunctions of src/put/ui/file_functions.py: the rows  *)
(* on the screen, the focus, the footer and the main loop.  A key the list *)
(* box does not use reaches unhandled_input; an exception other than       *)
(* ExitMainLoop that leaves a handler leaves MainLoop.run and ends the     *)
(* program.                                                                *)
(***************************************************************************)
\* the keys pressed
Keys == {"q", "esc", "d", "e", "enter", "f1", "n", "f", "x"}

\* k in ('enter') and k in ('f1'): the parentheses make no tuple, so these
\* are tests for a substring of the text
SubstringsOfEnter ==
    {"", "e", "n", "t", "r", "en", "nt", "te", "er", "ent", "nte", "ter",
     "ente", "nter", "enter"}
SubstringsOfF1 == {"", "f", "1", "f1"}

\* unhandled_input(k): the handler the chain of tests reaches
unhandled_input(k) ==
    IF k \in {"q", "Q", "esc"} THEN "exit"
    ELSE IF k \in {"d", "D"} THEN "delete_selected_files"
    ELSE IF k \in {"e", "E"} THEN "invoke_editor"
    ELSE IF k \in SubstringsOfEnter THEN "select"
    ELSE IF k \in SubstringsOfF1 THEN "unselect"
    ELSE "none"

\* render_size(size)
render_size(size) == RJust(sizeof_fmt(Digits1024(size)), 8)

\* update_statbox(): the counts and sizes it writes
update_statbox(st) ==
    [listed    |-> <<Len(st.files), render_size(st.total_size)>>,
     selected  |-> <<Cardinality(st.selected_files), render_size(st.selected_size)>>,
     subdir    |-> <<Len(st.files), render_size(st.total_size)>>,
     available |-> render_size(st.free)]

\* the row of an entry: its text and its attribute, with the suffix "_sel"
\* for a selected one
Row(m, maxnamelen, attr) == [text |-> render(m, maxnamelen), attr_map |-> attr]

\* metamapper(x)
metamapper(f, st, x) ==
    LET metadata == FileMetadata(f, st.wd, x)
    IN  Row(metadata, st.max_filename_len, IF metadata.isdir THEN "dir" ELSE "file")

\* the attribute select() and unselect() give the row
RowAttr(metadata) ==
    IF metadata.isbrokenlink THEN "broken_link"
    ELSE IF metadata.isdir THEN "dir" ELSE "file"

\* the directory trees put is started on: the fixture, and the fixture with
\* the second directory empty
StartFs == {InitialFs, Without(InitialFs, "/d2", Names)}

\* listwalker.get_focus()[1]: the focus position, None when there is no row
\* at it
get_focus == IF focus + 1 \in DOMAIN listwalker THEN focus ELSE None

\* FileFunctions(workdir) and main(): the FileManager is built, one row is
\* made for each listed name, the first row has the focus, the loop runs
InitUI ==
    \E workdir \in Dirs, f \in StartFs :
        LET r == ConstructedOn(f, workdir)
        IN  /\ r.err = "none"
            /\ fs = r.fs
            /\ wd = r.st.wd
            /\ files = r.st.files
            /\ selected_files = r.st.selected_files
            /\ total = r.st.total
            /\ used = r.st.used
            /\ free = r.st.free
            /\ max_filename_len = r.st.max_filename_len
            /\ total_size = r.st.total_size
            /\ selected_size = r.st.selected_size
            /\ last = [NoCall EXCEPT !.op = "__init__", !.path = workdir]
            /\ prev = NoCall
            /\ steps = 0
            /\ cwd = "/d1"
            /\ meta = NoMeta
            /\ fmt_num = <<0>>
            /\ fmt_text = ""
            /\ listwalker = [k \in 1..Len(r.st.files) |->
                                metamapper(r.fs, r.st, r.st.files[k])]
            /\ focus = 0
            /\ statbox = update_statbox(r.st)
            /\ loop = "running"
            /\ key = ""

\* the loop after a handler that ended with the exception err
After(err) == IF err = "none" THEN "running" ELSE "crashed"

\* 'q', 'Q', 'esc': raise urwid.ExitMainLoop()
KeyExit ==
    \E k \in Keys :
        /\ loop = "running"
        /\ unhandled_input(k) = "exit"
        /\ key' = k
        /\ loop' = "exited"
        /\ UNCHANGED <<fs, fmvars, listwalker, focus, statbox, probes>>
        /\ Tick(CallRecord("exit", 0, "", "none", {}, {}))

\* 'd', 'D': delete_selected_files(), which calls the FileManager's and
\* touches neither the rows nor the footer
KeyDelete ==
    \E k \in Keys, order \in Orders(selected_files), gone \in Races(fs, wd) :
        LET r == delete_selected_files(fs, State, order, gone)
        IN  /\ loop = "running"
            /\ unhandled_input(k) = "delete_selected_files"
            /\ key' = k
            /\ Assign(r.st)
            /\ fs' = r.fs
            /\ loop' = After(r.err)
            /\ UNCHANGED <<listwalker, focus, statbox, probes>>
            /\ Tick(CallRecord("delete_selected_files", 0, "", r.err, r.tried, r.failed))

\* 'e', 'E': invoke_editor(), the editor runs on get_path(focus) and returns
KeyEdit ==
    \E k \in Keys :
        LET r == get_path(State, get_focus)
        IN  /\ loop = "running"
            /\ unhandled_input(k) = "invoke_editor"
            /\ key' = k
            /\ loop' = After(r.err)
            /\ UNCHANGED <<fs, fmvars, listwalker, focus, statbox, probes>>
            /\ Tick(CallRecord("get_path", get_focus, "", r.err, {}, {}))

\* a key in 'enter': select()
KeySelect ==
    \E k \in Keys :
        LET r        == select_file(fs, State, get_focus)
            metadata == FileMetadata(fs, r.st.wd, PyIndex(r.st.files, get_focus))
        IN  /\ loop = "running"
            /\ unhandled_input(k) = "select"
            /\ key' = k
            /\ Assign(r.st)
            /\ fs' = fs
            /\ loop' = After(r.err)
            /\ IF r.err = "none"
               THEN /\ listwalker' =
                           [listwalker EXCEPT ![get_focus + 1] =
                               Row(metadata, r.st.max_filename_len,
                                   RowAttr(metadata) \o "_sel")]
                    /\ focus' = (get_focus + 1) % Len(listwalker)
                    /\ statbox' = update_statbox(r.st)
               ELSE UNCHANGED <<listwalker, focus, statbox>>
            /\ UNCHANGED probes
            /\ Tick(CallRecord("select_file", get_focus, "", r.err, {}, {}))

\* a key in 'f1': unselect(), which returns at once when the focus is not
\* selected
KeyUnselect ==
    \E k \in Keys :
        LET r        == unselect_file(fs, State, get_focus)
            metadata == FileMetadata(fs, r.st.wd, PyIndex(r.st.files, get_focus))
        IN  /\ loop = "running"
            /\ unhandled_input(k) = "unselect"
            /\ key' = k
            /\ IF get_focus \notin selected_files
               THEN /\ UNCHANGED <<fs, fmvars, listwalker, focus, statbox, loop>>
                    /\ Tick(CallRecord("none", get_focus, "", "none", {}, {}))
               ELSE /\ Assign(r.st)
                    /\ fs' = fs
                    /\ loop' = After(r.err)
                    /\ IF r.err = "none"
                       THEN /\ listwalker' =
                                   [listwalker EXCEPT ![get_focus + 1] =
                                       Row(metadata, r.st.max_filename_len,
                                           RowAttr(metadata))]
                            /\ focus' = (get_focus + 1) % Len(listwalker)
                            /\ statbox' = update_statbox(r.st)
                       ELSE UNCHANGED <<listwalker, focus, statbox>>
                    /\ Tick(CallRecord("unselect_file", get_focus, "", r.err, {}, {}))
            /\ UNCHANGED probes

\* any other key: unhandled_input falls through
KeyOther ==
    \E k \in Keys :
        /\ loop = "running"
        /\ unhandled_input(k) = "none"
        /\ key' = k
        /\ UNCHANGED <<fs, fmvars, listwalker, focus, statbox, loop, probes>>
        /\ Tick(CallRecord("none", 0, "", "none", {}, {}))

\* 'up', 'down', 'j', 'k': the list box moves the focus by one row and the
\* key does not reach unhandled_input
MoveFocus ==
    \E to \in {focus - 1, focus + 1} :
        /\ loop = "running"
        /\ 0 <= to /\ to < Len(listwalker)
        /\ focus' = to
        /\ UNCHANGED <<fs, fmvars, listwalker, statbox, loop, key, probes>>
        /\ Tick(CallRecord("none", to, "", "none", {}, {}))

NextUI ==
    \/ KeyExit
    \/ KeyDelete
    \/ KeyEdit
    \/ KeySelect
    \/ KeyUnselect
    \/ KeyOther
    \/ MoveFocus
    \/ ExternalRemove

SpecUI == InitUI /\ [][NextUI]_vars

(***************************************************************************)
(* The claims.                                                             *)
(***************************************************************************)
\* i is a position of the current listing, 0 <= i < len(files)
ValidIdx(i) == 0 <= i /\ i < Len(files)

\* the sum of the sizes of the selected entries that exist, by position
RECURSIVE ResolvedSum(_)
ResolvedSum(S) ==
    IF S = {} THEN 0
    ELSE LET i == CHOOSE x \in S : TRUE
             m == IF PyInRange(files, i)
                  THEN FileMetadata(fs, wd, PyIndex(files, i)).size ELSE 0
         IN  m + ResolvedSum(S \ {i})

\* the sum of the sizes FileMetadata resolves for the names of the set S
RECURSIVE ResolvedTotal(_)
ResolvedTotal(S) ==
    IF S = {} THEN 0
    ELSE LET n == CHOOSE x \in S : TRUE
         IN  FileMetadata(fs, wd, n).size + ResolvedTotal(S \ {n})

\* the latest call ran refresh() to its end
RefreshCompleted ==
    /\ last.op \in {"__init__", "change_dir", "refresh", "delete_selected_files"}
    /\ last.err = "none"

\* C1: in every reachable state, every element of selected_files is a
\* position i of the current listing, 0 <= i < len(files).
C1_SelectedArePositions == \A i \in selected_files : ValidIdx(i)

\* C2: after every refresh that ran to its end (at construction, in
\* change_dir, in delete_selected_files) files is strictly ascending by name
\* (sorted, no duplicates) and total_size is the sum of the sizes of exactly
\* the entries in files.
C2_RefreshSortsAndTotals ==
    RefreshCompleted =>
        /\ \A j, k \in 1..Len(files) : j < k => LexLess(files[j], files[k])
        /\ total_size = ResolvedTotal({files[k] : k \in 1..Len(files)})

C2_Witness ==
    /\ last.op = "delete_selected_files"
    /\ last.err = "none"
    /\ last.pre_sel # {}
    /\ Len(files) >= 2
    /\ total_size > 0

\* C3: after each select_file or unselect_file call, selected_size is the sum
\* of the sizes of files[i] over the i in selected_files, never a value from
\* before the mutation.
C3_SelectedSizeIsFresh ==
    last.op \in {"select_file", "unselect_file"} =>
        selected_size = ResolvedSum(selected_files)

\* C4 as stated: for every valid index, select_file(index) followed by
\* unselect_file(index) returns selected_size to its value before the select
\* and leaves index out of selected_files.
C4_RoundTripAnyIndex ==
    (/\ last.op = "unselect_file"
     /\ prev.op = "select_file"
     /\ last.idx = prev.idx
     /\ ValidIdx(last.idx))
    => (selected_size = prev.pre_size /\ last.idx \notin selected_files)

\* every index of S names an entry of the listing whose size can be read
Resolvable(S) ==
    \A i \in S : /\ PyInRange(files, i)
                 /\ FileMetadata(fs, wd, PyIndex(files, i)).err = "none"

\* C4 as amended: for every valid index that is not in selected_files before
\* the select, from a state in which selected_size is the sum of the sizes of
\* the selected entries, select_file(index) immediately followed by
\* unselect_file(index) returns selected_size to its value before the select
\* and leaves index out of selected_files.
C4_RoundTripUnselectedIndex ==
    (/\ last.op = "unselect_file"
     /\ prev.op = "select_file"
     /\ last.idx = prev.idx
     /\ ValidIdx(last.idx)
     /\ last.idx \notin prev.pre_sel
     /\ Resolvable(prev.pre_sel)
     /\ prev.pre_size = ResolvedSum(prev.pre_sel))
    => (selected_size = prev.pre_size /\ last.idx \notin selected_files)

C4_Witness ==
    /\ last.op = "unselect_file" /\ last.err = "none"
    /\ prev.op = "select_file" /\ prev.err = "none"
    /\ last.idx = prev.idx
    /\ ValidIdx(last.idx)
    /\ last.idx \notin prev.pre_sel
    /\ Resolvable(prev.pre_sel)
    /\ prev.pre_size = ResolvedSum(prev.pre_sel)
    /\ prev.pre_size > 0
    /\ last.pre_size > prev.pre_size

\* C5: select_file is idempotent: for every valid index, a second
\* select_file(index) right after the first leaves selected_files and
\* selected_size as the first left them and ends as the first ended (it is
\* no error when the first was none).
C5_SelectIdempotent ==
    (/\ last.op = "select_file"
     /\ prev.op = "select_file"
     /\ last.idx = prev.idx
     /\ ValidIdx(last.idx))
    => /\ selected_files = last.pre_sel
       /\ selected_size = last.pre_size
       /\ last.err = prev.err

C5_Witness ==
    /\ last.op = "select_file" /\ last.err = "none"
    /\ prev.op = "select_file" /\ prev.err = "none"
    /\ last.idx = prev.idx
    /\ ValidIdx(last.idx)
    /\ last.idx \notin prev.pre_sel
    /\ selected_size > 0

\* C6: right after every change_dir call that completes, selected_files is
\* empty and selected_size is 0, whatever was selected before.
C6_ChangeDirClearsSelection ==
    (last.op = "change_dir" /\ last.err = "none")
    => (selected_files = {} /\ selected_size = 0)

C6_Witness ==
    /\ last.op = "change_dir" /\ last.err = "none"
    /\ last.pre_sel # {}
    /\ last.pre_size > 0

\* C7: change_dir(path) with a path that does not exist or is not a directory
\* fails with an error and leaves wd, files, selected_files, total_size,
\* selected_size, max_filename_len and the disk figures as they were.
C7_FailedChangeDirChangesNothing ==
    [][(last'.op = "change_dir" /\ PathKind(fs, last'.path) # "dir")
       => (last'.err # "none" /\ UNCHANGED fmvars)]_vars

\* C8: select_file(index) and get_path(index) fail with an index error for
\* every index outside 0 <= index < len(files), negative ones included, and
\* succeed only for indices inside that range.
C8_IndexOutOfRangeFails ==
    (last.op \in {"select_file", "get_path"} /\ ~ValidIdx(last.idx))
    => last.err = "IndexError"

\* C9: unselect_file(index) with an index that is not in selected_files is a
\* no-op: no error, selected_files and selected_size unchanged.
C9_UnselectAbsentIsNoOp ==
    (last.op = "unselect_file" /\ last.idx \notin last.pre_sel)
    => /\ last.err = "none"
       /\ selected_files = last.pre_sel
       /\ selected_size = last.pre_size

\* C10: delete_selected_files attempts the deletion of every selected entry:
\* a deletion that fails does not stop the attempts on the others, and is not
\* raised as one fatal error for the batch.
C10_DeleteAttemptsEverySelected ==
    (last.op = "delete_selected_files" /\ \A i \in last.pre_sel : ValidIdx(i))
    => /\ last.tried = last.pre_sel
       /\ last.failed # {} => last.err = "none"

\* C11: every delete_selected_files call on a selection of positions of the
\* listing, whether every deletion succeeded or one of them failed, ends with
\* a refresh: afterwards files is the sorted listing of the working directory
\* as it is now and selected_files is empty.
C11_DeleteEndsWithRefresh ==
    (/\ last.op = "delete_selected_files"
     /\ PathKind(fs, wd) = "dir"
     /\ \A i \in last.pre_sel : ValidIdx(i)
     /\ (last.err = "none" \/ last.failed # {}))
    => /\ files = Sorted(ListDir(fs, wd))
       /\ selected_files = {}

\* the names at the positions S of the listing
NamesAt(S) == {PyIndex(files, i) : i \in S}

\* every selected index is a position of the listing and names an entry of
\* the working directory that os.unlink removes (a file or a symbolic link)
SelectionDeletable ==
    /\ PathKind(fs, wd) = "dir"
    /\ \A i \in selected_files :
           /\ ValidIdx(i)
           /\ fs[wd][PyIndex(files, i)].kind \notin {"none", "dir"}

\* C12: when files is the directory's listing and every selected entry is a
\* deletable file, delete_selected_files calls unlink for each selected
\* entry, none fails and the selected entries are gone from the directory;
\* when the call returns, the directory has lost exactly the selected
\* entries, files is the previous listing minus the selected names,
\* selected_files is empty, selected_size is 0 and total_size is the sum of
\* the sizes of the remaining entries.
C12_DeleteRemovesSelected ==
    [][(/\ last'.op = "delete_selected_files"
        /\ SelectionDeletable
        /\ files = Sorted(ListDir(fs, wd)))
       => /\ last'.tried = selected_files
          /\ last'.failed = {}
          /\ \A n \in NamesAt(selected_files) : fs'[wd][n].kind = "none"
          /\ last'.err = "none" =>
                 /\ fs' = Without(fs, wd, NamesAt(selected_files))
                 /\ files' = SelectSeq(files, LAMBDA n : n \notin NamesAt(selected_files))
                 /\ selected_files' = {}
                 /\ selected_size' = 0
                 /\ total_size' = SumSizes(fs', wd, files')
                 /\ wd' = wd]_vars

C12_Witness ==
    /\ last.op = "delete_selected_files"
    /\ last.err = "none"
    /\ Cardinality(last.pre_sel) = 2
    /\ last.tried = last.pre_sel
    /\ last.failed = {}
    /\ \A i \in last.pre_sel : i >= 0
    /\ Len(files) = 1
    /\ total_size > 0
    /\ selected_files = {}

\* C13: an entry that another process removed after it was listed (before
\* the sizes of a refresh are read, or before select_file or unselect_file
\* recompute selected_size) is skipped or re-listed: no call on an existing
\* working directory raises a not-found error for it.
C13_VanishedEntryIsNoError ==
    (/\ \/ last.op \in {"refresh", "change_dir", "select_file", "unselect_file"}
        \/ (last.op = "delete_selected_files" /\ last.failed = {})
     /\ PathKind(fs, wd) = "dir")
    => last.err # "FileNotFoundError"

\* C14: a call that replaces files by another listing, made while the
\* selection holds positions of the listing, leaves selected_files empty,
\* also when the call fails after it replaced files.
C14_NewListingClearsSelection ==
    [][((\A i \in selected_files : ValidIdx(i)) /\ files' # files)
       => selected_files' = {}]_vars

\* the entry is a symbolic link whose target, looked up from the directory
\* the link is in, names nothing
DanglingLink(f, w, n) ==
    EntryAt(f, w, n).kind = "link" /\ Follow(f, w, n, 2).kind = "none"

\* C16: isbrokenlink is true exactly for a symbolic link whose target does
\* not resolve, a relative target being looked up from the link's own
\* directory, whatever the current directory of the process; and building
\* the FileMetadata of a link flagged not broken does not fail with a
\* not-found error.
C16_BrokenLinkIsDanglingLink ==
    meta.built =>
        /\ meta.m.isbrokenlink <=> DanglingLink(fs, meta.wd, meta.m.basename)
        /\ (meta.m.islink /\ ~meta.m.isbrokenlink) => meta.m.err # "FileNotFoundError"

\* C17: every FileMetadata that was built has isbrokenlink => (not isdir and
\* size = 0), and the row rendered for a broken link shows N/A in the size
\* field and in the modification time field.
C17_BrokenLinkFields ==
    (meta.built /\ meta.m.err = "none" /\ meta.m.isbrokenlink) =>
        /\ ~meta.m.isdir
        /\ meta.m.size = 0
        /\ meta.row.size = "       N/A"
        /\ meta.row.mtime = "N/A"

C17_Witness ==
    /\ meta.built
    /\ meta.m.err = "none"
    /\ meta.m.isbrokenlink
    /\ meta.row.size = "       N/A"
    /\ Follow(fs, meta.wd, meta.m.basename, 2).size > 0

\* C18 as stated: sizeof_fmt returns "0 bytes" for 0, "1 byte" for 1,
\* "1.5 kB" for 1536 and "1.0 GB" for 1073741824.
C18_ExamplesAsStated ==
    fmt_text # "" =>
        /\ fmt_num = Digits1024(0) => fmt_text = "0 bytes"
        /\ fmt_num = Digits1024(1) => fmt_text = "1 byte"
        /\ fmt_num = Digits1024(1536) => fmt_text = "1.5 kB"
        /\ fmt_num = Digits1024(1073741824) => fmt_text = "1.0 GB"

\* C18 as amended: sizeof_fmt returns "0 bytes" for 0, "1 byte" for 1,
\* "2 kB" for 1536 (kB is written without decimals) and "1.0 GB" for
\* 1073741824.
C18_Examples ==
    fmt_text # "" =>
        /\ fmt_num = Digits1024(0) => fmt_text = "0 bytes"
        /\ fmt_num = Digits1024(1) => fmt_text = "1 byte"
        /\ fmt_num = Digits1024(1536) => fmt_text = "2 kB"
        /\ fmt_num = Digits1024(1073741824) => fmt_text = "1.0 GB"

C18_Witness ==
    /\ fmt_num = Digits1024(1536)
    /\ fmt_text = "2 kB"

\* C19: for every non-negative integer num sizeof_fmt returns a text, and
\* for num >= 2 the unit is the one at index min(floor(log_1024(num)), 5),
\* the largest k <= 5 with 1024^k <= num, so that the text is num divided by
\* 1024^k in that unit; also at the exact powers of 1024 and above 1024^6.
C19_UnitIsFloorLog ==
    fmt_text # "" =>
        /\ fmt_text # "None"
        /\ (Len(fmt_num) > 1 \/ fmt_num[1] >= 2) =>
               fmt_text = Formatted(fmt_num, Min(Len(fmt_num) - 1, 5))

\* C20: after every call that runs refresh (the constructor, change_dir,
\* refresh, delete_selected_files), however it ends, max_filename_len is
\* the greatest length of a name in files, and 12 when files is empty.
C20_MaxFilenameLen ==
    last.op \in {"__init__", "change_dir", "refresh", "delete_selected_files"} =>
        /\ files # <<>> =>
               /\ \A k \in 1..Len(files) : Len(files[k]) <= max_filename_len
               /\ \E k \in 1..Len(files) : Len(files[k]) = max_filename_len
        /\ files = <<>> => max_filename_len = 12

C20_Witness ==
    /\ last.op = "delete_selected_files"
    /\ last.err = "none"
    /\ prev.op = "select_file"
    /\ files = <<>>
    /\ max_filename_len = 12

\* C15: no failure of a FileManager call made for a key event ends the main
\* loop or the program: after a call that failed the loop is still running.
C15_FailureKeepsLoopRunning ==
    (loop # "none" /\ last.err # "none") => loop = "running"

\* the row at position i (from 0) shows the name of files[i]
RowShows(i) ==
    /\ i + 1 \in DOMAIN listwalker
    /\ ValidIdx(i)
    /\ Len(listwalker[i + 1].text.name) >= Len(files[i + 1])
    /\ SubSeq(listwalker[i + 1].text.name, 1, Len(files[i + 1])) = files[i + 1]

\* C21: after every handled key event (select, unselect, delete) that
\* returned, listwalker has one row for each entry of files, in the same
\* order, and the focused row is a position of files showing that entry.
C21_RowsFollowFiles ==
    ( /\ loop = "running"
      /\ last.op \in {"select_file", "unselect_file", "delete_selected_files"}
      /\ last.err = "none" )
    => /\ Len(listwalker) = Len(files)
       /\ \A i \in 0..(Len(files) - 1) : RowShows(i)
       /\ (Len(listwalker) > 0 => RowShows(focus))

\* the action the menu states for a key
MenuAction(k) ==
    IF k \in {"q", "Q", "esc"} THEN "exit"
    ELSE IF k \in {"d", "D"} THEN "delete_selected_files"
    ELSE IF k \in {"e", "E"} THEN "invoke_editor"
    ELSE IF k = "enter" THEN "select"
    ELSE IF k = "f1" THEN "unselect"
    ELSE "none"

\* C22: the key that reached unhandled_input was dispatched as the menu
\* states: only Enter selects, only F1 unselects, only d/D deletes, only e/E
\* edits, only q/Q/Esc quits, and any other key triggers none of these.
C22_DispatchAsMenu ==
    (loop # "none" /\ key # "") => unhandled_input(key) = MenuAction(key)

\* C23: a step that is a select_file or an unselect_file call, failed or
\* not, leaves wd, files, total_size, max_filename_len, total, used, free and
\* the whole directory tree as they were.
C23_SelectionFrame ==
    [][last'.op \in {"select_file", "unselect_file"}
       => UNCHANGED <<fs, wd, files, total_size, max_filename_len,
                      total, used, free>>]_vars

\* both calls returned on a listing with sizes: an entry was selected, then
\* unselected
C23_Witness ==
    /\ prev.op = "select_file" /\ prev.err = "none"
    /\ last.op = "unselect_file" /\ last.err = "none"
    /\ last.pre_size > 0 /\ selected_size = 0
    /\ total_size > 0

\* C24: on an empty listing (no entry listed, no row on the screen) the
\* select, unselect, edit and delete keys leave the FileManager as it was:
\* selected_files stays empty, selected_size stays 0, and no exception
\* leaves the handler.
C24_EmptyListingKeysAreNoOps ==
    ( /\ loop # "none"
      /\ files = <<>> /\ listwalker = <<>>
      /\ unhandled_input(key) \in {"select", "unselect", "invoke_editor",
                                   "delete_selected_files"}
      /\ last.op # "external" )
    => /\ selected_files = {}
       /\ selected_size = 0
       /\ last.err = "none"
       /\ loop = "running"

====
